---- MODULE Spec2Model ----
(***************************************************************************)
(* kancli: a terminal kanban board (bubbletea).  The repository holds two  *)
(* revisions of the controller in package main that differ in how a        *)
(* successful write reaches the screen:                                    *)
(*   "patch"  src/unnamed/part_000:1-523   patches the column lists        *)
(*            (InsertItem / RemoveItem / SetItem) and has the edit form;   *)
(*   "sync"   src/main.go:1-470            updates m.board and re-derives  *)
(*            every column list from it (syncColumnData).                  *)
(* The store is package models (src/main.go:471-925) over the sqlite       *)
(* schema of src/internal/db/db.go.  Indices are 0-based as in the Go      *)
(* code; a Go slice s[i] is the TLA+ sequence element s[i + 1].            *)
(***************************************************************************)
EXTENDS Integers, Sequences, FiniteSets, TLC

\* ------------------------------------------------------------ bounds
\* rows the tasks table receives over a run (AUTOINCREMENT ids 1..MaxTasks)
MaxTasks == 1

\* the same where tasks are only created (SpecCreate): ids 1..MaxRows
MaxRows == 2

\* the widest terminal of the window-size messages (SpecResize), and the
\* terminal heights
MaxWidth == 12

Widths == 0..MaxWidth

Heights == {0, 24}

\* the tasks table when the session starts: the status_column_id of each row
\* (no row, or one row in any of the three columns)
StartRows == {<< >>, <<1>>, <<2>>, <<3>>}

\* the characters typed into the input fields, and the texts they can hold
Chars == {"a"}

Texts == {<< >>, <<"a">>}

\* the characters typed into a list's filter, and the filter texts
FilterChars == {"a", "b"}

Terms == {<< >>, <<"a">>, <<"b">>, <<"i">>}

Builds == {"patch", "sync"}

VARIABLES
    build,   \* which revision of package main is running
    proc,    \* "start" (main not yet run), "running" (the event loop), "quit"
             \* (tea.Quit), "panic" (index out of range), "exited" (os.Exit)
    db,      \* the sqlite store: [boards, status_columns, tasks, seq]
    m,       \* the bubbletea Model struct
    os,      \* what the process leaves behind: [exit, stdout, stderr]
    screen,  \* m.width, m.height and the sizes computed from them
    pending  \* results of commands still running: messages not yet delivered

vars == <<build, proc, db, m, os, screen, pending>>

\* ------------------------------------------------------------ models
\* models.NewTask: Position 0, Priority 1 (low), no identifier yet (0)
NewTask(title, description) ==
    [Id |-> 0, BoardId |-> 0, StatusColumnId |-> 0,
     title |-> title, description |-> description,
     Position |-> 0, Priority |-> 1]

\* the board row and the three status_columns rows loadBoard creates on the first run
BoardId == 1

DefaultColumns ==
    << [Id |-> 1, BoardId |-> BoardId, Name |-> "To Do",       Position |-> 0],
       [Id |-> 2, BoardId |-> BoardId, Name |-> "In Progress", Position |-> 1],
       [Id |-> 3, BoardId |-> BoardId, Name |-> "Done",        Position |-> 2] >>

\* a sequence listing the rows of set S by ascending Id (rowid order)
RECURSIVE ByRowId(_)
ByRowId(S) ==
    IF S = {} THEN << >>
    ELSE LET r == CHOOSE x \in S : \A y \in S : x.Id <= y.Id
         IN  <<r>> \o ByRowId(S \ {r})

\* TaskRepository.Create: INSERT, the row gets the next AUTOINCREMENT id
TaskRepoCreate(d, task) ==
    [d EXCEPT !.tasks = @ \cup {[task EXCEPT !.Id = d.seq + 1]},
              !.seq = @ + 1]

\* TaskRepository.Update: UPDATE ... WHERE id = ? (board_id is not written)
TaskRepoUpdate(d, task) ==
    [d EXCEPT !.tasks =
        {IF r.Id = task.Id
            THEN [r EXCEPT !.StatusColumnId = task.StatusColumnId,
                           !.title = task.title,
                           !.description = task.description,
                           !.Position = task.Position,
                           !.Priority = task.Priority]
            ELSE r : r \in @}]

\* TaskRepository.Delete: DELETE FROM tasks WHERE id = ?
TaskRepoDelete(d, id) ==
    [d EXCEPT !.tasks = {r \in @ : r.Id # id}]

\* GetByColumnId with the newest row first
GetByColumnIdNewestFirst(d, columnId) ==
    LET rows == ByRowId({r \in d.tasks : r.StatusColumnId = columnId})
    IN  [k \in 1..Len(rows) |-> rows[Len(rows) + 1 - k]]

\* TaskRepository.GetByColumnId: ORDER BY position; every row holds position 0,
\* so the rows come back in rowid order
GetByColumnId(d, columnId) ==
    ByRowId({r \in d.tasks : r.StatusColumnId = columnId})

\* TaskRepository.GetByBoardId: ORDER BY status_column_id, position
GetByBoardId(d, boardId) ==
    LET cols == ByRowId({c \in d.status_columns : TRUE})
        F[i \in 0..Len(cols)] ==
            IF i = 0 THEN << >>
            ELSE F[i - 1] \o ByRowId({r \in d.tasks :
                        r.BoardId = boardId /\ r.StatusColumnId = cols[i].Id})
    IN  F[Len(cols)]

\* StatusColumnRepository.GetByBoardId: ORDER BY position
ColumnsByBoardId(d, boardId) ==
    LET S == {c \in d.status_columns : c.BoardId = boardId}
        F[i \in 0..Cardinality(S)] ==
            IF i = 0 THEN << >>
            ELSE Append(F[i - 1], CHOOSE c \in S : c.Position = i - 1)
    IN  F[Cardinality(S)]

\* Board.GetTasksByColumn: the board's tasks of one column, in collection order
GetTasksByColumn(board, columnId) ==
    SelectSeq(board.Tasks, LAMBDA t : t.StatusColumnId = columnId)

\* Board.AddTask: the task is appended to the board's collection
AddTask(board, task) == [board EXCEPT !.Tasks = Append(@, task)]

\* Board.UpdateTask: the task with that identifier is replaced in place
UpdateTask(board, task) ==
    [board EXCEPT !.Tasks =
        [i \in 1..Len(@) |-> IF @[i].Id = task.Id THEN task ELSE @[i]]]

\* Board.RemoveTask: the task with that identifier leaves the collection
RemoveTask(board, id) ==
    [board EXCEPT !.Tasks = SelectSeq(@, LAMBDA t : t.Id # id)]

\* ------------------------------------------------------------ list.Model
\* The column view (bubbles list.Model): its items, the cursor (Index() is the
\* cursor), and the filter: its state ("Unfiltered", "Filtering"), the text of
\* the filter input, and the items the last filter result kept.
NewList(title, items) ==
    [Title |-> title, items |-> items, cursor |-> 0,
     filterState |-> "Unfiltered", filterValue |-> << >>, filteredItems |-> << >>]

Index(l) == l.cursor

\* VisibleItems: the filtered items unless the list is unfiltered
VisibleItems(l) == IF l.filterState # "Unfiltered" THEN l.filteredItems ELSE l.items

\* SelectedItem: the visible item under the cursor, << >> when the cursor is
\* past the end
SelectedItem(l) ==
    IF l.cursor < Len(VisibleItems(l)) THEN <<VisibleItems(l)[l.cursor + 1]>> ELSE << >>

\* SettingFilter: the filter's text is being entered
SettingFilter(l) == l.filterState = "Filtering"

\* the default filter: the term's characters occur in the title in this order
RECURSIVE Matches(_, _)
Matches(term, title) ==
    IF term = << >> THEN TRUE
    ELSE IF title = << >> THEN FALSE
    ELSE IF Head(term) = Head(title) THEN Matches(Tail(term), Tail(title))
    ELSE Matches(term, Tail(title))

\* filterItems: the result the command computes from the list as it was when
\* the command was made: every item for an empty term, else the matching items
filterItems(l) ==
    IF l.filterValue = << >> \/ l.filterState = "Unfiltered" THEN l.items
    ELSE SelectSeq(l.items, LAMBDA t : Matches(l.filterValue, t.title))

\* Update on the filter key "/" while browsing: all items visible if the filter
\* input is empty, cursor 0, state Filtering
StartFiltering(l) ==
    [l EXCEPT !.filteredItems = IF l.filterValue = << >> THEN l.items ELSE @,
              !.cursor = 0,
              !.filterState = "Filtering"]

\* Update on a character while Filtering: the filter input takes it
FilterInput(l, c) == [l EXCEPT !.filterValue = Append(@, c)]

\* Update on FilterMatchesMsg: the result becomes the filtered items
FilterMatches(l, items) == [l EXCEPT !.filteredItems = items]

InsertItem(l, index, item) ==
    [l EXCEPT !.items = SubSeq(@, 1, index) \o <<item>> \o SubSeq(@, index + 1, Len(@))]

\* removeItemFromSlice / removeFilterMatchFromSlice: the slice without the
\* element at index, the slice itself when index is past its end
removeFromSlice(s, index) ==
    IF index < Len(s)
        THEN SubSeq(s, 1, index) \o SubSeq(s, index + 2, Len(s))
        ELSE s

\* resetFiltering: back to the unfiltered list with an empty filter input
resetFiltering(l) ==
    [l EXCEPT !.filterState = "Unfiltered", !.filterValue = << >>,
              !.filteredItems = << >>]

\* RemoveItem: the element at index leaves the items and, unless the list is
\* unfiltered, the element at the same index leaves the filtered items; the
\* filter is reset when no filtered item is left
RemoveItem(l, index) ==
    LET items == removeFromSlice(l.items, index) IN
    IF l.filterState = "Unfiltered" THEN [l EXCEPT !.items = items]
    ELSE LET filtered == removeFromSlice(l.filteredItems, index) IN
         IF filtered = << >>
             THEN resetFiltering([l EXCEPT !.items = items])
             ELSE [l EXCEPT !.items = items, !.filteredItems = filtered]

SetItem(l, index, item) == [l EXCEPT !.items[index + 1] = item]

\* SetItems: the filtered items are dropped unless the list is unfiltered (the
\* command that would compute them again is returned to a caller that drops it)
SetItems(l, items) ==
    [l EXCEPT !.items = items,
              !.filteredItems = IF l.filterState = "Unfiltered" THEN @ ELSE << >>]

CursorDown(l) ==
    LET n == Len(VisibleItems(l)) IN
    [l EXCEPT !.cursor =
        IF @ + 1 < n THEN @ + 1
        ELSE IF @ + 1 > n THEN 0
        ELSE IF n = 0 THEN 0 ELSE n - 1]

CursorUp(l) == [l EXCEPT !.cursor = IF @ > 0 THEN @ - 1 ELSE 0]

\* ------------------------------------------------------------ textinput.Model
NewInput == [value |-> << >>, focus |-> FALSE]

Focus(t) == [t EXCEPT !.focus = TRUE]

Blur(t) == [t EXCEPT !.focus = FALSE]

SetValue(t, v) == [t EXCEPT !.value = v]

\* ------------------------------------------------------------ Model
\* initInputPane; taskId and listIndex hold Go's zero value
initInputPane ==
    [taskId |-> 0, listIndex |-> 0,
     titleInput |-> NewInput, descriptionInput |-> NewInput, focused |-> 0]

\* initColumnsFromDB: one list per board column, items read from the store
initColumnsFromDB(d, board) ==
    [i \in 1..Len(board.Columns) |->
        NewList(board.Columns[i].Name, GetByColumnId(d, board.Columns[i].Id))]

\* the stores a session can start on: the default board and the StartRows tasks,
\* each as an earlier session created it (title "a", no description)
StartStores ==
    LET Row(id, c) == [NewTask(<<"a">>, << >>) EXCEPT
                          !.Id = id, !.BoardId = BoardId, !.StatusColumnId = c]
    IN  { [boards |-> {BoardId},
           status_columns |-> {DefaultColumns[i] : i \in 1..3},
           tasks |-> {Row(i, f[i]) : i \in 1..Len(f)},
           seq |-> Len(f)] : f \in StartRows }

\* NewModel of the "patch" revision: loadBoard, then initColumnsFromDB
NewModelPatch(d) ==
    LET board == [Id |-> BoardId,
                  Columns |-> ColumnsByBoardId(d, BoardId),
                  Tasks |-> GetByBoardId(d, BoardId)]
    IN  [board |-> board,
         columns |-> initColumnsFromDB(d, board),
         inputPane |-> initInputPane,
         focused |-> 0, mode |-> "Normal", err |-> "nil"]

\* NewModel of the "sync" revision: loadBoard alone; the lists are built by the
\* first window-size message.  On the first run loadBoard keeps the board it
\* created, whose Columns were never read back; later runs load it with GetById.
NewModelSync(d, firstRun) ==
    [board |-> [Id |-> BoardId,
                Columns |-> IF firstRun THEN << >> ELSE ColumnsByBoardId(d, BoardId),
                Tasks |-> IF firstRun THEN << >> ELSE GetByBoardId(d, BoardId)],
     columns |-> << >>,
     inputPane |-> initInputPane,
     focused |-> 0, mode |-> "Normal", err |-> "nil"]

\* the process while it runs: no exit code yet (-1), nothing printed
NoExit == [exit |-> -1, stdout |-> << >>, stderr |-> << >>]

\* before the first window-size message: m.width and m.height are 0, the styles
\* carry no width, the lists of initColumnsFromDB are 0 by 0
NoScreen ==
    [width |-> 0, height |-> 0, columnWidth |-> 0, columnHeight |-> 0,
     listWidth |-> 0, listHeight |-> 0, inputWidth |-> 0]

\* the event loop has just started on a store an earlier session left
Init ==
    /\ build \in Builds
    /\ proc = "running"
    /\ db \in StartStores
    /\ \/ build = "patch" /\ m = NewModelPatch(db)
       \/ build = "sync" /\ m = NewModelSync(db, FALSE)
       \/ build = "sync" /\ db.tasks = {} /\ m = NewModelSync(db, TRUE)
    /\ os = NoExit
    /\ screen = NoScreen
    /\ pending = {}

\* getSelectedTask: << >> or <<task>>
getSelectedTask(mm) ==
    IF Len(mm.columns) = 0 \/ mm.focused < 0 \/ mm.focused >= Len(mm.columns)
        THEN << >>
        ELSE SelectedItem(mm.columns[mm.focused + 1])

\* whether m.columns[m.focused] is an element of the slice (it panics otherwise)
InRange(mm) == mm.focused >= 0 /\ mm.focused < Len(mm.columns)

\* m.err: "nil", or the error the failed call returned: "create", "update" and
\* "delete" for the taskRepo calls, "no columns" for createTask's own error
\* what a handler leaves behind: the Model, the store, and whether it panicked
Done(mm, d) == [m |-> mm, db |-> d, panic |-> FALSE]

Panic(mm, d) == [m |-> mm, db |-> d, panic |-> TRUE]

\* what a call returns to handleInsert: the error it reports as well
Ret(mm, d, e) == [m |-> mm, db |-> d, err |-> e, panic |-> FALSE]

RetPanic(mm, d) == [m |-> mm, db |-> d, err |-> "nil", panic |-> TRUE]

\* ------------------------------------------------------------ "patch" revision
\* createTaskPatch with the task left as NewTask made it: no board identifier
createTaskPatchUnowned(mm, d, title, description, ok) ==
    IF Len(mm.board.Columns) = 0 THEN Ret(mm, d, "no columns")
    ELSE
    LET columnId == IF mm.focused < Len(mm.board.Columns)
                        THEN mm.board.Columns[mm.focused + 1].Id
                        ELSE mm.board.Columns[1].Id
        task == [NewTask(title, description) EXCEPT !.StatusColumnId = columnId]
        saved == [task EXCEPT !.Id = d.seq + 1]
    IN  IF ~ok THEN Ret(mm, d, "create")
        ELSE IF ~InRange(mm) THEN RetPanic(mm, TaskRepoCreate(d, task))
        ELSE Ret([mm EXCEPT !.columns[mm.focused + 1] = InsertItem(@, 0, saved)],
                 TaskRepoCreate(d, task), "nil")

\* createTaskPatch with the new task always filed under the board's first column
createTaskPatchFirstColumn(mm, d, title, description, ok) ==
    IF Len(mm.board.Columns) = 0 THEN Ret(mm, d, "no columns")
    ELSE
    LET task == [NewTask(title, description) EXCEPT
                    !.BoardId = mm.board.Id,
                    !.StatusColumnId = mm.board.Columns[1].Id]
        saved == [task EXCEPT !.Id = d.seq + 1]
    IN  IF ~ok THEN Ret(mm, d, "create")
        ELSE IF ~InRange(mm) THEN RetPanic(mm, TaskRepoCreate(d, task))
        ELSE Ret([mm EXCEPT !.columns[mm.focused + 1] = InsertItem(@, 0, saved)],
                 TaskRepoCreate(d, task), "nil")

\* createTask: the row is inserted, then the focused list alone gets the item
createTaskPatch(mm, d, title, description, ok) ==
    IF Len(mm.board.Columns) = 0 THEN Ret(mm, d, "no columns")
    ELSE
    LET columnId == IF mm.focused < Len(mm.board.Columns)
                        THEN mm.board.Columns[mm.focused + 1].Id
                        ELSE mm.board.Columns[1].Id
        task == [NewTask(title, description) EXCEPT
                    !.BoardId = mm.board.Id, !.StatusColumnId = columnId]
        saved == [task EXCEPT !.Id = d.seq + 1]
    IN  IF ~ok THEN Ret(mm, d, "create")
        ELSE IF ~InRange(mm) THEN RetPanic(mm, TaskRepoCreate(d, task))
        ELSE Ret([mm EXCEPT !.columns[mm.focused + 1] = InsertItem(@, 0, saved)],
                 TaskRepoCreate(d, task), "nil")

\* updateTask with the task rebuilt from the form instead of copied from the
\* selection: its column is lost
updateTaskRebuilt(mm, d, title, description, ok) ==
    LET sel == getSelectedTask(mm) IN
    IF sel = << >> THEN Ret(mm, d, "nil")
    ELSE
    LET task == [NewTask(title, description) EXCEPT !.Id = sel[1].Id,
                                                    !.BoardId = sel[1].BoardId]
        li == mm.inputPane.listIndex
    IN  IF ~ok THEN Ret(mm, d, "update")
        ELSE IF li < 0 \/ li >= Len(mm.columns[mm.focused + 1].items)
            THEN RetPanic(mm, TaskRepoUpdate(d, task))
        ELSE Ret([mm EXCEPT !.columns[mm.focused + 1] = SetItem(@, li, task),
                            !.inputPane.listIndex = -1],
                 TaskRepoUpdate(d, task), "nil")

\* updateTask: the selected task gets the form's texts, is written, and replaces
\* the item at inputPane.listIndex
updateTask(mm, d, title, description, ok) ==
    LET sel == getSelectedTask(mm) IN
    IF sel = << >> THEN Ret(mm, d, "nil")
    ELSE
    LET task == [sel[1] EXCEPT !.title = title, !.description = description]
        li == mm.inputPane.listIndex
    IN  IF ~ok THEN Ret(mm, d, "update")
        ELSE IF li < 0 \/ li >= Len(mm.columns[mm.focused + 1].items)
            THEN RetPanic(mm, TaskRepoUpdate(d, task))
        ELSE Ret([mm EXCEPT !.columns[mm.focused + 1] = SetItem(@, li, task),
                            !.inputPane.listIndex = -1],
                 TaskRepoUpdate(d, task), "nil")

\* handleInsert "enter": clear the form and leave Insert unless a call failed
enterPatch(mm, d, ok) ==
    LET title == mm.inputPane.titleInput.value
        description == mm.inputPane.descriptionInput.value
        r == IF mm.inputPane.taskId # -1
                THEN updateTask(mm, d, title, description, ok)
             ELSE IF title # << >>
                THEN createTaskPatch(mm, d, title, description, ok)
             ELSE Ret(mm, d, "nil")
    IN  IF r.panic THEN Panic(r.m, r.db)
        ELSE IF r.err # "nil" THEN Done([r.m EXCEPT !.err = r.err], r.db)
        ELSE Done([r.m EXCEPT
                    !.inputPane.titleInput = Blur(SetValue(@, << >>)),
                    !.inputPane.descriptionInput = Blur(SetValue(@, << >>)),
                    !.inputPane.focused = 0,
                    !.mode = "Normal"], r.db)

\* moveLeftPatch with the lists patched and the focus moved before the call's
\* result is looked at
moveLeftPatchUnchecked(mm, d, ok) ==
    LET sel == getSelectedTask(mm) IN
    IF ~(mm.focused > 0) \/ sel = << >> THEN Done(mm, d)
    ELSE
    LET task == [sel[1] EXCEPT !.StatusColumnId = mm.board.Columns[mm.focused].Id]
        moved == [mm EXCEPT
                    !.columns[mm.focused + 1] = RemoveItem(@, Index(@)),
                    !.columns[mm.focused] = InsertItem(@, 0, task),
                    !.focused = @ - 1]
    IN  IF ~ok THEN Done([moved EXCEPT !.err = "update"], d)
        ELSE Done(moved, TaskRepoUpdate(d, task))

\* handleNormal "<": the selected task goes to the column on the left
moveLeftPatch(mm, d, ok) ==
    LET sel == getSelectedTask(mm) IN
    IF ~(mm.focused > 0) \/ sel = << >> THEN Done(mm, d)
    ELSE
    LET task == [sel[1] EXCEPT !.StatusColumnId = mm.board.Columns[mm.focused].Id]
    IN  IF ~ok THEN Done([mm EXCEPT !.err = "update"], d)
        ELSE Done([mm EXCEPT
                    !.columns[mm.focused + 1] = RemoveItem(@, Index(@)),
                    !.columns[mm.focused] = InsertItem(@, 0, task),
                    !.focused = @ - 1],
                  TaskRepoUpdate(d, task))

\* moveRightPatch with the focus going right although no task is selected
moveRightPatchFocusAnyway(mm, d, ok) ==
    LET sel == getSelectedTask(mm) IN
    IF ~(mm.focused < Len(mm.columns) - 1) THEN Done(mm, d)
    ELSE IF sel = << >> THEN Done([mm EXCEPT !.focused = @ + 1], d)
    ELSE
    LET task == [sel[1] EXCEPT !.StatusColumnId = mm.board.Columns[mm.focused + 2].Id]
    IN  IF ~ok THEN Done([mm EXCEPT !.err = "update"], d)
        ELSE Done([mm EXCEPT
                    !.columns[mm.focused + 1] = RemoveItem(@, Index(@)),
                    !.columns[mm.focused + 2] = InsertItem(@, 0, task),
                    !.focused = @ + 1],
                  TaskRepoUpdate(d, task))

\* handleNormal ">": the selected task goes to the column on the right
moveRightPatch(mm, d, ok) ==
    LET sel == getSelectedTask(mm) IN
    IF ~(mm.focused < Len(mm.columns) - 1) \/ sel = << >> THEN Done(mm, d)
    ELSE
    LET task == [sel[1] EXCEPT !.StatusColumnId = mm.board.Columns[mm.focused + 2].Id]
    IN  IF ~ok THEN Done([mm EXCEPT !.err = "update"], d)
        ELSE Done([mm EXCEPT
                    !.columns[mm.focused + 1] = RemoveItem(@, Index(@)),
                    !.columns[mm.focused + 2] = InsertItem(@, 0, task),
                    !.focused = @ + 1],
                  TaskRepoUpdate(d, task))

\* deletePatch with the item removed whether or not the call succeeded
deletePatchOptimistic(mm, d, ok) ==
    LET sel == getSelectedTask(mm) IN
    IF sel = << >> THEN Done(mm, d)
    ELSE IF ~ok
        THEN Done([mm EXCEPT !.err = "delete",
                             !.columns[mm.focused + 1] = RemoveItem(@, Index(@))], d)
    ELSE Done([mm EXCEPT !.columns[mm.focused + 1] = RemoveItem(@, Index(@))],
              TaskRepoDelete(d, sel[1].Id))

\* handleNormal "d": the selected task is deleted and its item removed
deletePatch(mm, d, ok) ==
    LET sel == getSelectedTask(mm) IN
    IF sel = << >> THEN Done(mm, d)
    ELSE IF ~ok THEN Done([mm EXCEPT !.err = "delete"], d)
    ELSE Done([mm EXCEPT !.columns[mm.focused + 1] = RemoveItem(@, Index(@))],
              TaskRepoDelete(d, sel[1].Id))

\* beginEdit recording the list's first position whatever the cursor's is
beginEditFirstPosition(mm) ==
    LET sel == getSelectedTask(mm) IN
    IF sel = << >> THEN mm
    ELSE [mm EXCEPT
            !.inputPane.titleInput = Focus(SetValue(@, sel[1].title)),
            !.inputPane.descriptionInput = SetValue(@, sel[1].description),
            !.mode = "Insert",
            !.inputPane.focused = 0,
            !.inputPane.taskId = sel[1].Id,
            !.inputPane.listIndex = 0]

\* handleNormal "e": the form opens on the selected task
beginEdit(mm) ==
    LET sel == getSelectedTask(mm) IN
    IF sel = << >> THEN mm
    ELSE [mm EXCEPT
            !.inputPane.titleInput = Focus(SetValue(@, sel[1].title)),
            !.inputPane.descriptionInput = SetValue(@, sel[1].description),
            !.mode = "Insert",
            !.inputPane.focused = 0,
            !.inputPane.taskId = sel[1].Id,
            !.inputPane.listIndex = Index(mm.columns[mm.focused + 1])]

\* handleNormal "i": the form opens for a new task
beginCreatePatch(mm) ==
    [mm EXCEPT !.mode = "Insert",
               !.inputPane.taskId = -1,
               !.inputPane.listIndex = -1,
               !.inputPane.focused = 0,
               !.inputPane.titleInput = Focus(@)]

\* ------------------------------------------------------------ "sync" revision
\* the items of column i as the board has them
BoardItems(board, i) == GetTasksByColumn(board, board.Columns[i].Id)

\* syncColumnData: every list gets the board's tasks of its column
syncColumnData(mm) ==
    [mm EXCEPT !.columns =
        [i \in 1..Len(@) |->
            IF i <= Len(mm.board.Columns)
                THEN SetItems(@[i], BoardItems(mm.board, i))
                ELSE @[i]]]

\* rebuildColumns: a list per board column; an existing list keeps its cursor
rebuildColumns(mm) ==
    IF Len(mm.board.Columns) = 0 THEN mm
    ELSE [mm EXCEPT !.columns =
            [i \in 1..Len(mm.board.Columns) |->
                IF Len(@) = Len(mm.board.Columns)
                   /\ @[i].Title = mm.board.Columns[i].Name
                    THEN SetItems(@[i], BoardItems(mm.board, i))
                    ELSE NewList(mm.board.Columns[i].Name, BoardItems(mm.board, i))]]

\* createTaskSync with the board and the lists updated before the call's error
\* is looked at
createTaskSyncOptimistic(mm, d, title, description, ok) ==
    IF Len(mm.board.Columns) = 0 THEN Ret(mm, d, "no columns")
    ELSE
    LET columnId == IF mm.focused < Len(mm.board.Columns)
                        THEN mm.board.Columns[mm.focused + 1].Id
                        ELSE mm.board.Columns[1].Id
        task == [NewTask(title, description) EXCEPT
                    !.BoardId = mm.board.Id, !.StatusColumnId = columnId]
        saved == [task EXCEPT !.Id = d.seq + 1]
        shown == syncColumnData([mm EXCEPT !.board = AddTask(@, saved)])
    IN  IF ~ok THEN Ret(shown, d, "create")
        ELSE Ret(shown, TaskRepoCreate(d, task), "nil")

\* createTask: the row is inserted, the board gets the task, the lists are re-derived
createTaskSync(mm, d, title, description, ok) ==
    IF Len(mm.board.Columns) = 0 THEN Ret(mm, d, "no columns")
    ELSE
    LET columnId == IF mm.focused < Len(mm.board.Columns)
                        THEN mm.board.Columns[mm.focused + 1].Id
                        ELSE mm.board.Columns[1].Id
        task == [NewTask(title, description) EXCEPT
                    !.BoardId = mm.board.Id, !.StatusColumnId = columnId]
        saved == [task EXCEPT !.Id = d.seq + 1]
    IN  IF ~ok THEN Ret(mm, d, "create")
        ELSE Ret(syncColumnData([mm EXCEPT !.board = AddTask(@, saved)]),
                 TaskRepoCreate(d, task), "nil")

\* handleInsert "enter": nothing happens on an empty title
enterSync(mm, d, ok) ==
    LET title == mm.inputPane.titleInput.value
        description == mm.inputPane.descriptionInput.value
    IN  IF title = << >> THEN Done(mm, d)
        ELSE
        LET r == createTaskSync(mm, d, title, description, ok)
        IN  IF r.err # "nil" THEN Done([r.m EXCEPT !.err = r.err], r.db)
            ELSE Done([r.m EXCEPT
                        !.inputPane.titleInput = Blur(SetValue(@, << >>)),
                        !.inputPane.descriptionInput = Blur(SetValue(@, << >>)),
                        !.inputPane.focused = 0,
                        !.mode = "Normal"], r.db)

\* handleNormal "<": the board's task changes column, the lists are re-derived,
\* and the focus index is incremented
moveLeftSync(mm, d, ok) ==
    LET sel == getSelectedTask(mm) IN
    IF ~(mm.focused > 0) \/ sel = << >> THEN Done(mm, d)
    ELSE
    LET task == [sel[1] EXCEPT !.StatusColumnId = mm.board.Columns[mm.focused].Id]
    IN  IF ~ok THEN Done([mm EXCEPT !.err = "update"], d)
        ELSE Done([syncColumnData([mm EXCEPT !.board = UpdateTask(@, task)])
                    EXCEPT !.focused = @ + 1],
                  TaskRepoUpdate(d, task))

\* handleNormal ">"
moveRightSync(mm, d, ok) ==
    LET sel == getSelectedTask(mm) IN
    IF ~(mm.focused < Len(mm.columns) - 1) \/ sel = << >> THEN Done(mm, d)
    ELSE
    LET task == [sel[1] EXCEPT !.StatusColumnId = mm.board.Columns[mm.focused + 2].Id]
    IN  IF ~ok THEN Done([mm EXCEPT !.err = "update"], d)
        ELSE Done([syncColumnData([mm EXCEPT !.board = UpdateTask(@, task)])
                    EXCEPT !.focused = @ + 1],
                  TaskRepoUpdate(d, task))

\* deleteSync with the task removed before the call's error is looked at
deleteSyncOptimistic(mm, d, ok) ==
    LET sel == getSelectedTask(mm) IN
    IF sel = << >> THEN Done(mm, d)
    ELSE IF ~ok
        THEN Done(syncColumnData([mm EXCEPT !.err = "delete",
                                            !.board = RemoveTask(@, sel[1].Id)]), d)
    ELSE Done(syncColumnData([mm EXCEPT !.board = RemoveTask(@, sel[1].Id)]),
              TaskRepoDelete(d, sel[1].Id))

\* handleNormal "d"
deleteSync(mm, d, ok) ==
    LET sel == getSelectedTask(mm) IN
    IF sel = << >> THEN Done(mm, d)
    ELSE IF ~ok THEN Done([mm EXCEPT !.err = "delete"], d)
    ELSE Done(syncColumnData([mm EXCEPT !.board = RemoveTask(@, sel[1].Id)]),
              TaskRepoDelete(d, sel[1].Id))

\* handleNormal "i"
beginCreateSync(mm) ==
    [mm EXCEPT !.mode = "Insert",
               !.inputPane.focused = 0,
               !.inputPane.titleInput = Focus(@)]

\* ------------------------------------------------------------ the event loop
Running == proc = "running"

\* a handler's result becomes the next state
Becomes(r) ==
    /\ m' = r.m
    /\ db' = r.db
    /\ proc' = IF r.panic THEN "panic" ELSE proc
    /\ UNCHANGED <<build, os, screen, pending>>

\* handleNormal / handleInsert "ctrl+c", handleNormal "q"
KeyQuit ==
    /\ Running
    /\ proc' = "quit"
    /\ os' = [os EXCEPT !.exit = 0]
    /\ UNCHANGED <<build, db, m, screen, pending>>

\* handleNormal "left", "h"
KeyLeft ==
    /\ Running /\ m.mode = "Normal"
    /\ m' = IF m.focused > 0 THEN [m EXCEPT !.focused = @ - 1] ELSE m
    /\ UNCHANGED <<build, proc, db, os, screen, pending>>

\* handleNormal "right", "l"
KeyRight ==
    /\ Running /\ m.mode = "Normal"
    /\ m' = IF m.focused < Len(m.columns) - 1 THEN [m EXCEPT !.focused = @ + 1] ELSE m
    /\ UNCHANGED <<build, proc, db, os, screen, pending>>

\* handleNormal default -> handleListInput: "down", "j" move the list's cursor
KeyDown ==
    /\ Running /\ m.mode = "Normal"
    /\ Becomes(IF InRange(m)
                THEN Done([m EXCEPT !.columns[m.focused + 1] = CursorDown(@)], db)
                ELSE Panic(m, db))

\* handleNormal default -> handleListInput: "up", "k"
KeyUp ==
    /\ Running /\ m.mode = "Normal"
    /\ Becomes(IF InRange(m)
                THEN Done([m EXCEPT !.columns[m.focused + 1] = CursorUp(@)], db)
                ELSE Panic(m, db))

\* handleNormal "<"; ok is whether taskRepo.Update succeeds
MoveLeft(ok) ==
    /\ Running /\ m.mode = "Normal"
    /\ Becomes(IF build = "patch" THEN moveLeftPatch(m, db, ok)
                                   ELSE moveLeftSync(m, db, ok))

\* handleNormal ">"
MoveRight(ok) ==
    /\ Running /\ m.mode = "Normal"
    /\ Becomes(IF build = "patch" THEN moveRightPatch(m, db, ok)
                                   ELSE moveRightSync(m, db, ok))

\* Delete taking the key in Insert mode as well
DeleteInAnyMode(ok) ==
    /\ Running
    /\ Becomes(IF build = "patch" THEN deletePatch(m, db, ok)
                                   ELSE deleteSync(m, db, ok))

\* handleNormal "d"; ok is whether taskRepo.Delete succeeds
Delete(ok) ==
    /\ Running /\ m.mode = "Normal"
    /\ Becomes(IF build = "patch" THEN deletePatch(m, db, ok)
                                   ELSE deleteSync(m, db, ok))

\* handleNormal "e" (the "patch" revision alone has the key)
BeginEdit ==
    /\ Running /\ m.mode = "Normal"
    /\ build = "patch"
    /\ Becomes(Done(beginEdit(m), db))

\* handleListInput on a character while the focused list is Filtering: the
\* filter input takes it and the command filterItems starts; its result is
\* delivered later
forwardToFilter(c) ==
    LET l == FilterInput(m.columns[m.focused + 1], c)
    IN  /\ m' = [m EXCEPT !.columns[m.focused + 1] = l]
        /\ pending' = pending \cup {[type |-> "FilterMatchesMsg",
                                     items |-> filterItems(l)]}
        /\ UNCHANGED <<build, proc, db, os, screen>>

\* BeginCreate without the look at the focused list's filter state
BeginCreateUnfiltered ==
    /\ Running /\ m.mode = "Normal"
    /\ Becomes(IF ~InRange(m) THEN Panic(m, db)
               ELSE IF build = "patch" THEN Done(beginCreatePatch(m), db)
               ELSE Done(beginCreateSync(m), db))

\* handleNormal "i": the key goes to the focused list while that list is
\* entering its filter, and opens the form otherwise
BeginCreate ==
    /\ Running /\ m.mode = "Normal"
    /\ IF InRange(m) /\ SettingFilter(m.columns[m.focused + 1])
         THEN /\ Append(m.columns[m.focused + 1].filterValue, "i") \in Terms
              /\ forwardToFilter("i")
         ELSE Becomes(IF ~InRange(m) THEN Panic(m, db)
                      ELSE IF build = "patch" THEN Done(beginCreatePatch(m), db)
                      ELSE Done(beginCreateSync(m), db))

\* Cancel with the text fields left as they were: the focused one keeps the
\* input focus
CancelKeepsFocus ==
    /\ Running /\ m.mode = "Insert"
    /\ m' = [m EXCEPT !.mode = "Normal"]
    /\ UNCHANGED <<build, proc, db, os, screen, pending>>

\* handleInsert "esc"
Cancel ==
    /\ Running /\ m.mode = "Insert"
    /\ m' = [m EXCEPT !.mode = "Normal",
                      !.inputPane.titleInput = Blur(@),
                      !.inputPane.descriptionInput = Blur(@)]
    /\ UNCHANGED <<build, proc, db, os, screen, pending>>

\* handleInsert "tab"
SwitchField ==
    /\ Running /\ m.mode = "Insert"
    /\ m' = IF m.inputPane.focused = 0
              THEN [m EXCEPT !.inputPane.focused = 1,
                             !.inputPane.titleInput = Blur(@),
                             !.inputPane.descriptionInput = Focus(@)]
              ELSE [m EXCEPT !.inputPane.focused = 0,
                             !.inputPane.descriptionInput = Blur(@),
                             !.inputPane.titleInput = Focus(@)]
    /\ UNCHANGED <<build, proc, db, os, screen, pending>>

\* whether "enter" would call taskRepo.Create
WouldCreate(mm) ==
    /\ mm.inputPane.taskId = -1 \/ build = "sync"
    /\ mm.inputPane.titleInput.value # << >>

\* handleInsert "enter"; ok is whether the persistence call succeeds
Confirm(ok) ==
    /\ Running /\ m.mode = "Insert"
    /\ WouldCreate(m) => db.seq < MaxTasks
    /\ Becomes(IF build = "patch" THEN enterPatch(m, db, ok)
                                   ELSE enterSync(m, db, ok))

\* textinput.Update on a rune: a focused input appends it
TypeInto(t, c) == IF t.focus THEN [t EXCEPT !.value = Append(@, c)] ELSE t

\* textinput.Update on backspace
EraseFrom(t) ==
    IF t.focus /\ Len(t.value) > 0
        THEN [t EXCEPT !.value = SubSeq(@, 1, Len(@) - 1)] ELSE t

\* handleInsert, any other key: a character goes to the field inputPane.focused names
TypeChar(c) ==
    /\ Running /\ m.mode = "Insert"
    /\ IF m.inputPane.focused = 0
         THEN /\ Append(m.inputPane.titleInput.value, c) \in Texts
              /\ m' = [m EXCEPT !.inputPane.titleInput = TypeInto(@, c)]
         ELSE /\ Append(m.inputPane.descriptionInput.value, c) \in Texts
              /\ m' = [m EXCEPT !.inputPane.descriptionInput = TypeInto(@, c)]
    /\ UNCHANGED <<build, proc, db, os, screen, pending>>

\* handleInsert, any other key: backspace
Backspace ==
    /\ Running /\ m.mode = "Insert"
    /\ m' = IF m.inputPane.focused = 0
              THEN [m EXCEPT !.inputPane.titleInput = EraseFrom(@)]
              ELSE [m EXCEPT !.inputPane.descriptionInput = EraseFrom(@)]
    /\ UNCHANGED <<build, proc, db, os, screen, pending>>

\* handleWindowSize ("patch"): the styles get width / columns - 2 and
\* height - 17, the lists that less the frame (border 2 + padding 2 each way),
\* the input pane the width less the frame; nothing but m.width and m.height
\* without lists
handleWindowSize(sc, mm, width, height) ==
    IF Len(mm.columns) = 0 THEN [sc EXCEPT !.width = width, !.height = height]
    ELSE LET columnWidth == (width \div Len(mm.columns)) - 2
             columnHeight == height - 17
         IN  [width |-> width, height |-> height,
              columnWidth |-> columnWidth, columnHeight |-> columnHeight,
              listWidth |-> columnWidth - 4, listHeight |-> columnHeight - 4,
              inputWidth |-> width - 4]

\* the sizes rebuildColumns ("sync") computes: width / columns and height - 10,
\* the lists 2 narrower; nothing but m.width and m.height without board columns
rebuildSizes(sc, mm, width, height) ==
    IF Len(mm.board.Columns) = 0 THEN [sc EXCEPT !.width = width, !.height = height]
    ELSE LET columnWidth == width \div Len(mm.board.Columns)
             columnHeight == height - 10
         IN  [sc EXCEPT !.width = width, !.height = height,
                        !.columnWidth = columnWidth, !.columnHeight = columnHeight,
                        !.listWidth = columnWidth - 2, !.listHeight = columnHeight]

\* Update on tea.WindowSizeMsg, in either mode
Resize(width, height) ==
    /\ Running
    /\ IF build = "patch"
         THEN /\ m' = m
              /\ screen' = handleWindowSize(screen, m, width, height)
         ELSE /\ m' = rebuildColumns(m)
              /\ screen' = rebuildSizes(screen, m, width, height)
    /\ UNCHANGED <<build, proc, db, os, pending>>

\* the size of the terminal the session runs in
StartSize == <<80, 24>>

\* the window-size message of the "sync" revision, which builds its lists
WindowSize ==
    /\ build = "sync"
    /\ Resize(StartSize[1], StartSize[2])

KeyMoveLeft == \E ok \in BOOLEAN : MoveLeft(ok)

KeyMoveRight == \E ok \in BOOLEAN : MoveRight(ok)

KeyDelete == \E ok \in BOOLEAN : Delete(ok)

KeyEnter == \E ok \in BOOLEAN : Confirm(ok)

KeyChar == \E c \in Chars : TypeChar(c)

Next ==
    \/ WindowSize
    \/ KeyLeft
    \/ KeyRight
    \/ KeyDown
    \/ KeyUp
    \/ KeyMoveLeft
    \/ KeyMoveRight
    \/ KeyDelete
    \/ BeginEdit
    \/ BeginCreate
    \/ KeyEnter
    \/ Cancel
    \/ SwitchField
    \/ KeyChar
    \/ Backspace

Spec == Init /\ [][Next]_vars

\* handleInsert "enter" while the tasks table has room for a row up to id n
ConfirmUpTo(n, ok) ==
    /\ Running /\ m.mode = "Insert"
    /\ WouldCreate(m) => db.seq < n
    /\ Becomes(IF build = "patch" THEN enterPatch(m, db, ok)
                                   ELSE enterSync(m, db, ok))

KeyEnterCreate == \E ok \in BOOLEAN : ConfirmUpTo(MaxRows, ok)

\* the keys that create tasks, the focus keys, and the window-size message
NextCreate ==
    \/ WindowSize
    \/ KeyLeft
    \/ KeyRight
    \/ BeginCreate
    \/ KeyEnterCreate
    \/ Cancel
    \/ SwitchField
    \/ KeyChar
    \/ Backspace

SpecCreate == Init /\ [][NextCreate]_vars

\* a window-size message of any size
AnyResize == \E width \in Widths, height \in Heights : Resize(width, height)

\* window-size messages alone, one after the other
SpecResize == Init /\ [][AnyResize]_vars

\* ------------------------------------------------------------ filtering
\* handleNormal default -> handleListInput: "/" starts the filter of the focused
\* list
StartFilter ==
    /\ Running /\ m.mode = "Normal"
    /\ InRange(m) => ~SettingFilter(m.columns[m.focused + 1])
    /\ Becomes(IF InRange(m)
                THEN Done([m EXCEPT !.columns[m.focused + 1] = StartFiltering(@)], db)
                ELSE Panic(m, db))

\* handleNormal default -> handleListInput: a character no case of handleNormal
\* takes, while the focused list is Filtering: the filter input changes and
\* the command filterItems starts; its result is delivered later
FilterKey(c) ==
    /\ Running /\ m.mode = "Normal"
    /\ InRange(m)
    /\ SettingFilter(m.columns[m.focused + 1])
    /\ Append(m.columns[m.focused + 1].filterValue, c) \in Terms
    /\ forwardToFilter(c)

KeyFilter == \E c \in FilterChars : FilterKey(c)

\* Update on a message that is neither a key nor a window size: it goes to the
\* focused list, in either mode
Deliver(msg) ==
    /\ Running
    /\ msg \in pending
    /\ pending' = pending \ {msg}
    /\ m' = IF Len(m.columns) > 0 /\ m.focused < Len(m.columns)
              THEN [m EXCEPT !.columns[m.focused + 1] = FilterMatches(@, msg.items)]
              ELSE m
    /\ UNCHANGED <<build, proc, db, os, screen>>

CommandDone == \E msg \in pending : Deliver(msg)

\* a store with two tasks in the first column, titled "a" and "b"
FilterStores ==
    LET Row(id, t) == [NewTask(t, << >>) EXCEPT
                          !.Id = id, !.BoardId = BoardId,
                          !.StatusColumnId = DefaultColumns[1].Id]
    IN  { [boards |-> {BoardId},
           status_columns |-> {DefaultColumns[i] : i \in 1..3},
           tasks |-> {Row(1, <<"a">>), Row(2, <<"b">>)},
           seq |-> 2] }

\* the event loop has just started on that store
InitFilter ==
    /\ build \in Builds
    /\ proc = "running"
    /\ db \in FilterStores
    /\ m = IF build = "patch" THEN NewModelPatch(db) ELSE NewModelSync(db, FALSE)
    /\ os = NoExit
    /\ screen = NoScreen
    /\ pending = {}

\* the filter keys, the filter result, delete and the form
NextFilter ==
    \/ WindowSize
    \/ StartFilter
    \/ KeyFilter
    \/ CommandDone
    \/ KeyDelete
    \/ BeginEdit
    \/ BeginCreate
    \/ KeyEnter
    \/ Cancel
    \/ SwitchField
    \/ KeyChar
    \/ Backspace

SpecFilter == InitFilter /\ [][NextFilter]_vars

\* ------------------------------------------------------------ startup
\* the store file of a first run: no table holds a row
FreshStore == [boards |-> {}, status_columns |-> {}, tasks |-> {}, seq |-> 0]

\* the stores main can find: none yet, or one an earlier session left
BootStores == {FreshStore} \cup StartStores

\* which persistence call of NewModel fails, counted in the order they are
\* made; 0, or a number past the last call: none fails
FailAt == 0..9

\* the Model literal of NewModel, before loadBoard
NoModel ==
    [board |-> [Id |-> 0, Columns |-> << >>, Tasks |-> << >>],
     columns |-> << >>,
     inputPane |-> initInputPane,
     focused |-> 0, mode |-> "Normal", err |-> "nil"]

\* loadBoard creating a board on every run: with a board in the store, a second
\* board row is inserted and becomes the active board
loadBoardAgain(rev, d, failAt) ==
    IF d.boards = {}
    THEN LET made == IF failAt \in 3..5 THEN failAt - 3 ELSE 3
             d2 == IF failAt \in 1..2 THEN d
                   ELSE [d EXCEPT !.boards = {BoardId},
                                  !.status_columns = {DefaultColumns[i] : i \in 1..made}]
             calls == IF rev = "patch" THEN 6 ELSE 5
         IN  IF failAt \in 1..calls
                THEN [board |-> NoModel.board, db |-> d2, err |-> "load", calls |-> failAt]
                ELSE [board |-> [Id |-> BoardId,
                                 Columns |-> IF rev = "patch"
                                                THEN ColumnsByBoardId(d2, BoardId)
                                                ELSE << >>,
                                 Tasks |-> << >>],
                      db |-> d2, err |-> "nil", calls |-> calls]
    ELSE LET id == BoardId + 1
             d2 == [d EXCEPT !.boards = @ \cup {id}]
         IN  IF failAt \in 1..2
                THEN [board |-> NoModel.board, db |-> d, err |-> "load", calls |-> failAt]
                ELSE [board |-> [Id |-> id,
                                 Columns |-> ColumnsByBoardId(d2, id),
                                 Tasks |-> GetByBoardId(d2, id)],
                      db |-> d2, err |-> "nil", calls |-> 2]

\* loadBoard.  First run (no board row): GetAll (call 1), boardRepo.Create (2),
\* columnRepo.Create three times (3, 4, 5) and, in the "patch" revision,
\* columnRepo.GetByBoardId (6), whose result becomes board.Columns; the "sync"
\* revision keeps the board without reading the columns back.  Later runs:
\* GetAll (1) and GetById (2).  m.board is assigned only when no call failed.
loadBoard(rev, d, failAt) ==
    IF d.boards = {}
    THEN LET made == IF failAt \in 3..5 THEN failAt - 3 ELSE 3
             d2 == IF failAt \in 1..2 THEN d
                   ELSE [d EXCEPT !.boards = {BoardId},
                                  !.status_columns = {DefaultColumns[i] : i \in 1..made}]
             calls == IF rev = "patch" THEN 6 ELSE 5
         IN  IF failAt \in 1..calls
                THEN [board |-> NoModel.board, db |-> d2, err |-> "load", calls |-> failAt]
                ELSE [board |-> [Id |-> BoardId,
                                 Columns |-> IF rev = "patch"
                                                THEN ColumnsByBoardId(d2, BoardId)
                                                ELSE << >>,
                                 Tasks |-> << >>],
                      db |-> d2, err |-> "nil", calls |-> calls]
    ELSE LET id == CHOOSE b \in d.boards : TRUE
         IN  IF failAt \in 1..2
                THEN [board |-> NoModel.board, db |-> d, err |-> "load", calls |-> failAt]
                ELSE [board |-> [Id |-> id,
                                 Columns |-> ColumnsByBoardId(d, id),
                                 Tasks |-> GetByBoardId(d, id)],
                      db |-> d, err |-> "nil", calls |-> 2]

\* initColumnsFromDB when its GetByColumnId call for column failed fails (0:
\* none): the lists before it are built, the others are zero list.Models
initColumnsUpTo(d, board, failed) ==
    [i \in 1..Len(board.Columns) |->
        IF failed = 0 \/ i < failed
            THEN NewList(board.Columns[i].Name, GetByColumnId(d, board.Columns[i].Id))
            ELSE NewList("", << >>)]

\* NewModel: loadBoard and, in the "patch" revision when it succeeded,
\* initColumnsFromDB; an error of either is kept in m.err
NewModel(rev, d, failAt) ==
    LET l == loadBoard(rev, d, failAt)
        failed == IF failAt > l.calls /\ failAt <= l.calls + Len(l.board.Columns)
                    THEN failAt - l.calls ELSE 0
    IN  IF l.err # "nil" THEN [m |-> [NoModel EXCEPT !.err = l.err], db |-> l.db]
        ELSE IF rev = "sync" THEN [m |-> [NoModel EXCEPT !.board = l.board], db |-> l.db]
        ELSE [m |-> [NoModel EXCEPT
                        !.board = l.board,
                        !.columns = initColumnsUpTo(l.db, l.board, failed),
                        !.err = IF failed = 0 THEN "nil" ELSE "load"],
              db |-> l.db]

\* how db.NewDB can fail: setupDataPath (the data directory cannot be resolved
\* or created), openDB, or a CREATE TABLE / CREATE INDEX statement
Faults == {"none", "dir", "open", "schema"}

\* main up to p.Run: db.NewDB, NewModel.  A failure of db.NewDB is printed with
\* fmt.Println and the process exits with code 1.
Main(fault, failAt) ==
    /\ proc = "start"
    /\ IF fault # "none"
         THEN /\ proc' = "exited"
              /\ os' = [os EXCEPT !.exit = 1, !.stdout = Append(@, fault)]
              /\ UNCHANGED <<db, m>>
         ELSE /\ proc' = "running"
              /\ m' = NewModel(build, db, failAt).m
              /\ db' = NewModel(build, db, failAt).db
              /\ os' = os
    /\ UNCHANGED <<build, screen, pending>>

Start == \E fault \in Faults, failAt \in FailAt : Main(fault, failAt)

\* the process is started
InitBoot ==
    /\ build \in Builds
    /\ proc = "start"
    /\ db \in BootStores
    /\ m = NoModel
    /\ os = NoExit
    /\ screen = NoScreen
    /\ pending = {}

\* the whole run: startup, the event loop, quit
NextBoot ==
    \/ Start
    \/ KeyQuit
    \/ Next

SpecBoot == InitBoot /\ [][NextBoot]_vars

\* Model.View: the error in place of the board, "Loading..." without lists
View(mm) ==
    IF mm.err # "nil" THEN "Error"
    ELSE IF Len(mm.columns) = 0 THEN "Loading..."
    ELSE "board"

\* a user who keeps pressing keys and, whenever they can act, the keys that
\* reach a persistence call and the key that closes the form
KeysKeepComing ==
    /\ WF_vars(Next)
    /\ SF_vars(KeyMoveLeft)
    /\ SF_vars(KeyMoveRight)
    /\ SF_vars(KeyDelete)
    /\ SF_vars(KeyEnter)
    /\ SF_vars(Cancel)

\* the event loop under such a user
SpecKeys == Spec /\ KeysKeepComing
\* ------------------------------------------------------------ what the claims read
\* the items of a list, as a set
Items(l) == {l.items[k] : k \in 1..Len(l.items)}

\* what a column view shows of a task
Shown(t) == <<t.Id, t.title, t.description>>

\* the store's rows of the column that view i stands for
StoreRows(i) == {r \in db.tasks : r.StatusColumnId = m.board.Columns[i].Id}

\* task-to-column mappings: of the store, of the board's task collection, of the
\* views (by the view an item is in, and by the item's own StatusColumnId)
StoreMap(d) == {<<r.Id, r.StatusColumnId>> : r \in d.tasks}

BoardMap(b) == {<<b.Tasks[k].Id, b.Tasks[k].StatusColumnId>> : k \in 1..Len(b.Tasks)}

ViewMap(mm) ==
    UNION { {<<t.Id, mm.board.Columns[i].Id>> : t \in Items(mm.columns[i])} :
            i \in 1..Len(mm.columns) }

ItemMap(mm) ==
    UNION { {<<t.Id, t.StatusColumnId>> : t \in Items(mm.columns[i])} :
            i \in 1..Len(mm.columns) }

\* the identifiers the views show
ViewIds(mm) == {p[1] : p \in ViewMap(mm)}

\* every list equals the board's tasks of its column
ViewsDerivedFromBoard(mm) ==
    \A i \in 1..Len(mm.columns) :
        mm.columns[i].items = GetTasksByColumn(mm.board, mm.board.Columns[i].Id)

\* the keystrokes that reach a persistence call
CallsMoveLeft == m.focused > 0 /\ getSelectedTask(m) # << >>

CallsMoveRight == m.focused < Len(m.columns) - 1 /\ getSelectedTask(m) # << >>

CallsDelete == getSelectedTask(m) # << >>

Creating == build = "sync" \/ m.inputPane.taskId = -1

Editing == build = "patch" /\ m.inputPane.taskId # -1

\* ------------------------------------------------------------ claims
\* C1: in every reachable state each column view shows (identifier, title,
\* description) exactly the store's rows of its column, each once.
C1_ViewsMatchStore ==
    \A i \in 1..Len(m.columns) :
        /\ {Shown(t) : t \in Items(m.columns[i])} = {Shown(r) : r \in StoreRows(i)}
        /\ Cardinality(Items(m.columns[i])) = Len(m.columns[i].items)

\* C1 witness: after a failed update, a task with a typed description sits in
\* the store's and the view's third column
C1_Witness ==
    /\ m.err = "update"
    /\ \E r \in db.tasks :
        /\ r.StatusColumnId = 3
        /\ r.description = <<"a">>
        /\ r \in Items(m.columns[3])

\* C2 (as claimed): a successful move-left / move-right started with the board's
\* task-to-column mapping equal to the store's ends with them equal.
C2_BoardFollowsMoves ==
    [][ ( /\ BoardMap(m.board) = StoreMap(db)
          /\ \/ MoveLeft(TRUE) /\ CallsMoveLeft
             \/ MoveRight(TRUE) /\ CallsMoveRight )
        => BoardMap(m'.board) = StoreMap(db') ]_vars

\* C3: a move whose update fails changes neither the board, nor the views, nor
\* the store, nor the focus, and sets the error.
C3_FailedMoveChangesNothing ==
    [][ ( \/ MoveLeft(FALSE) /\ CallsMoveLeft
          \/ MoveRight(FALSE) /\ CallsMoveRight )
        => /\ m'.board = m.board
           /\ m'.columns = m.columns
           /\ db' = db
           /\ m'.focused = m.focused
           /\ m'.err # "nil" ]_vars

\* C3 witness: an update failed before the form was ever opened (a move), and
\* the selected task is still in the store under the focused column
C3_Witness ==
    /\ m.err = "update"
    /\ m.inputPane.taskId = 0
    /\ m.focused > 0
    /\ getSelectedTask(m) # << >>
    /\ \E r \in db.tasks :
        /\ r.Id = getSelectedTask(m)[1].Id
        /\ r.StatusColumnId = m.board.Columns[m.focused + 1].Id

\* C4 (as claimed): after a successful delete the task is in neither the board's
\* task collection, nor a view, nor a view re-derived from the board.
C4_DeletedTaskGone ==
    [][ (Delete(TRUE) /\ CallsDelete)
        => LET id == getSelectedTask(m)[1].Id IN
           /\ id \notin {p[1] : p \in BoardMap(m'.board)}
           /\ id \notin ViewIds(m')
           /\ \A i \in 1..Len(m'.board.Columns) :
                \A k \in 1..Len(BoardItems(m'.board, i)) :
                    BoardItems(m'.board, i)[k].Id # id ]_vars

\* C5 (as claimed): after every successful create, edit, move or delete each
\* list equals the board's tasks of its column.
C5_ViewsAreDerived ==
    [][ ( \/ MoveLeft(TRUE) /\ CallsMoveLeft
          \/ MoveRight(TRUE) /\ CallsMoveRight
          \/ Delete(TRUE) /\ CallsDelete
          \/ Confirm(TRUE) /\ (Editing \/ m.inputPane.titleInput.value # << >>) )
        => ViewsDerivedFromBoard(m') ]_vars

\* C6 (as claimed): enter on the create form with an empty title changes neither
\* the store, nor the board, nor the views, and the mode stays Insert.
C6_EmptyTitleStaysInInsert ==
    [][ (\E ok \in BOOLEAN :
            Confirm(ok) /\ Creating /\ m.inputPane.titleInput.value = << >>)
        => /\ db' = db
           /\ m'.board = m.board
           /\ m'.columns = m.columns
           /\ m'.mode = "Insert" ]_vars

\* C7: confirming an edit leaves every task's column as it was, in the store,
\* in the board and in the views.
C7_EditKeepsColumn ==
    [][ (\E ok \in BOOLEAN : Confirm(ok) /\ Editing)
        => /\ StoreMap(db') = StoreMap(db)
           /\ BoardMap(m'.board) = BoardMap(m.board)
           /\ ViewMap(m') = ViewMap(m)
           /\ ItemMap(m') = ItemMap(m) ]_vars

\* C7 witness: an edit was saved (listIndex reset, taskId kept) for a task that
\* is in the third column and now carries the typed description
C7_Witness ==
    /\ m.mode = "Normal"
    /\ m.inputPane.listIndex = -1
    /\ \E r \in db.tasks :
        /\ r.Id = m.inputPane.taskId
        /\ r.StatusColumnId = 3
        /\ r.description = <<"a">>
        /\ r \in Items(m.columns[3])

\* C8 (as claimed): with at least one column, 0 <= focused <= columnCount - 1.
C8_FocusInRange ==
    Len(m.board.Columns) >= 1 =>
        0 <= m.focused /\ m.focused <= Len(m.board.Columns) - 1

\* C9 (as claimed): a successful move-left ends with the focus one less and the
\* task in the newly focused view, a successful move-right with it one more.
C9_FocusFollowsTask ==
    [][ /\ (MoveLeft(TRUE) /\ CallsMoveLeft)
            => /\ m'.focused = m.focused - 1
               /\ InRange(m')
               /\ getSelectedTask(m)[1].Id
                    \in {t.Id : t \in Items(m'.columns[m'.focused + 1])}
        /\ (MoveRight(TRUE) /\ CallsMoveRight)
            => /\ m'.focused = m.focused + 1
               /\ InRange(m')
               /\ getSelectedTask(m)[1].Id
                    \in {t.Id : t \in Items(m'.columns[m'.focused + 1])} ]_vars

\* C10: a delete whose call fails sets the error and changes neither the store,
\* nor the board, nor the views, nor the selection.
C10_FailedDeleteKeepsTask ==
    [][ (Delete(FALSE) /\ CallsDelete)
        => /\ m'.err # "nil"
           /\ db' = db
           /\ m'.board = m.board
           /\ m'.columns = m.columns
           /\ m'.focused = m.focused
           /\ getSelectedTask(m') = getSelectedTask(m)
           /\ getSelectedTask(m')[1] \in db'.tasks ]_vars

\* C10 witness: a delete failed and the selected task is still stored
C10_Witness ==
    /\ m.err = "delete"
    /\ getSelectedTask(m) # << >>
    /\ getSelectedTask(m)[1] \in db.tasks

\* the store's identifiers of the columns of the active board
BoardColumnIds == {c.Id : c \in {x \in db.status_columns : x.BoardId = m.board.Id}}

\* a task of the active board, in one of its columns
Owned(t) == t.BoardId = m.board.Id /\ t.StatusColumnId \in BoardColumnIds

\* C11: enter on the create form with a title while the create call fails sets
\* the error, keeps both fields' texts and the Insert mode, and changes neither
\* the store, nor the board, nor a view.
C11_FailedCreateKeepsForm ==
    [][ (Confirm(FALSE) /\ Creating /\ m.inputPane.titleInput.value # << >>)
        => /\ m'.err = "create"
           /\ m'.inputPane = m.inputPane
           /\ m'.mode = "Insert"
           /\ m'.board = m.board
           /\ m'.columns = m.columns
           /\ db' = db ]_vars

\* C11 witness: a create failed; the form still holds the typed title and
\* description and the store holds no task
C11_Witness ==
    /\ m.err = "create"
    /\ m.mode = "Insert"
    /\ m.inputPane.titleInput.value = <<"a">>
    /\ m.inputPane.descriptionInput.value = <<"a">>
    /\ db.tasks = {}

\* C12 (as claimed): enter on the edit form while the update call fails sets the
\* error and returns to Normal, with the store, the board and the views as
\* they were.
C12_FailedEditReturnsToNormal ==
    [][ (Confirm(FALSE) /\ Editing /\ getSelectedTask(m) # << >>)
        => /\ m'.err = "update"
           /\ m'.mode = "Normal"
           /\ db' = db
           /\ m'.board = m.board
           /\ m'.columns = m.columns ]_vars

\* C16 (as claimed): every task the store holds has a non-empty title.
C16_StoredTitlesNonEmpty == \A r \in db.tasks : r.title # << >>

\* C17: every task of the store, of the board's collection and of the views
\* carries the active board's identifier and the identifier of one of that
\* board's columns.
C17_TasksBelongToBoard ==
    /\ \A r \in db.tasks : Owned(r)
    /\ \A k \in 1..Len(m.board.Tasks) : Owned(m.board.Tasks[k])
    /\ \A i \in 1..Len(m.columns) : \A t \in Items(m.columns[i]) : Owned(t)

\* C17 witness: a task created in this session (it has a description, which the
\* "sync" revision can only give at creation) was moved to the third column, in
\* the store and in the view
C17_Witness ==
    /\ build = "sync"
    /\ Len(m.columns) = 3
    /\ \E r \in db.tasks :
        /\ r.description = <<"a">>
        /\ r.StatusColumnId = DefaultColumns[3].Id
        /\ r \in Items(m.columns[3])

\* C13 (as claimed): whenever a failed create, update or delete has put the
\* error in place of the board, the user's further keystrokes bring the board
\* back on the screen (unless the process has ended meanwhile).
C13_BoardComesBack ==
    (proc = "running" /\ m.err \in {"create", "update", "delete"})
        ~> (View(m) = "board" \/ proc # "running")

\* what stands behind C13: no step of the event loop sets m.err back to nil
ErrorStays == [][m.err # "nil" => m'.err # "nil"]_vars

\* the identifier of the column createTask puts a task in
CreateColumn(mm) ==
    IF mm.focused < Len(mm.board.Columns)
        THEN mm.board.Columns[mm.focused + 1].Id
        ELSE mm.board.Columns[1].Id

C15_WidthsFit ==
    /\ screen.columnWidth >= 0
    /\ Len(m.columns) * screen.columnWidth <= screen.width

\* a startup in which neither db.NewDB nor a persistence call fails
CleanStart == Main("none", 0)

\* C18 (as claimed): after a startup in which no call fails, on a fresh store
\* and on a store with a board alike, the board in memory has the columns
\* "To Do", "In Progress", "Done" at positions 0, 1, 2 in this order, and there
\* is one list per column when the event loop starts.
C18_StartsWithThreeColumns ==
    [][ CleanStart
        => /\ proc' = "running"
           /\ [i \in 1..Len(m'.board.Columns) |->
                    <<m'.board.Columns[i].Name, m'.board.Columns[i].Position>>]
                = << <<"To Do", 0>>, <<"In Progress", 1>>, <<"Done", 2>> >>
           /\ Len(m'.columns) = Len(m'.board.Columns) ]_vars

\* C19 (as claimed): a process ended by a startup failure has a non-zero exit
\* code, a message on standard error and never ran the event loop (its Model
\* is still the one before NewModel); a process ended by quit has exit code 0.
C19_ExitCodes ==
    /\ proc = "exited" => /\ os.exit > 0
                          /\ os.stderr # << >>
                          /\ m = NoModel
    /\ proc = "quit" => os.exit = 0

\* C20 (as claimed): confirming an edit writes to the store, and replaces in
\* the view, no task but the one whose identifier begin-edit captured.
C20_EditHitsCapturedTask ==
    [][ (Confirm(TRUE) /\ Editing)
        => /\ \A r \in db'.tasks \ db.tasks : r.Id = m.inputPane.taskId
           /\ \A i \in 1..Len(m.columns) :
                \A k \in 1..Len(m.columns[i].items) :
                    m'.columns[i].items[k] # m.columns[i].items[k]
                        => /\ m.columns[i].items[k].Id = m.inputPane.taskId
                           /\ m'.columns[i].items[k].Id = m.inputPane.taskId ]_vars

\* C21 (as claimed): a successful delete, move or edit confirm of a selected
\* task takes no other task's item out of the focused column's items and
\* overwrites no other task's item there, also while a filter hides items.
C21_IndexHitsSelectedItem ==
    [][ ( /\ \/ Delete(TRUE) \/ MoveLeft(TRUE) \/ MoveRight(TRUE)
             \/ Confirm(TRUE) /\ Editing
          /\ InRange(m)
          /\ getSelectedTask(m) # << >> )
        => \A t \in Items(m.columns[m.focused + 1]) :
              t.Id # getSelectedTask(m)[1].Id
                  => t \in Items(m'.columns[m.focused + 1]) ]_vars

\* C22 (as claimed): no keystroke handler reads m.columns[m.focused] out of
\* range: the event loop never panics, whatever the startup left behind.
C22_NoIndexOutOfRange == proc # "panic"

\* the edit context the code keeps: none outside Insert mode (inputPane.taskId
\* is read by handleInsert alone and both 'i' and 'e' set it), else creating
\* for taskId -1 and in the revision without the edit key, else editing
EditContext(mm) ==
    IF mm.mode # "Insert" THEN "none"
    ELSE IF build = "sync" \/ mm.inputPane.taskId = -1 THEN "creating"
    ELSE "editing"

\* enter submits something: a create with a title, or an edit of a selected task
Submits ==
    \/ Creating /\ m.inputPane.titleInput.value # << >>
    \/ Editing /\ getSelectedTask(m) # << >>

\* C23 (as claimed): after every enter in Insert mode that submits something,
\* the persistence call succeeding or failing, creating or editing, the edit
\* context is none and the field focus is on the title.
C23_ConfirmClearsContext ==
    [][ (KeyEnter /\ Submits /\ proc' = "running")
        => /\ EditContext(m') = "none"
           /\ m'.inputPane.focused = 0 ]_vars

\* C24: a successful create with a non-empty title adds exactly one task: its
\* identifier is no existing task's, its column is the focused column's, its
\* board the active board's; the focused column's view gains its item and no
\* other view changes; both fields are empty and the mode is Normal afterwards.
C24_CreateAddsOneTask ==
    [][ (ConfirmUpTo(MaxRows, TRUE) /\ Creating /\ m.inputPane.titleInput.value # << >>)
        => LET added == db'.tasks \ db.tasks IN
           /\ db.tasks \subseteq db'.tasks
           /\ Cardinality(added) = 1
           /\ \A t \in added :
                /\ \A r \in db.tasks : r.Id # t.Id
                /\ m.focused < Len(m.board.Columns)
                /\ t.StatusColumnId = m.board.Columns[m.focused + 1].Id
                /\ t.BoardId = m.board.Id
                /\ m.board.Id \in db.boards
                /\ \A i \in 1..Len(m.columns) :
                     LET old == m.columns[i].items
                         new == m'.columns[i].items
                     IN  IF i = m.focused + 1
                             THEN /\ Len(new) = Len(old) + 1
                                  /\ {Shown(x) : x \in Items(m'.columns[i])}
                                       = {Shown(x) : x \in Items(m.columns[i])}
                                             \cup {Shown(t)}
                             ELSE new = old
           /\ Len(m'.columns) = Len(m.columns)
           /\ m'.inputPane.titleInput.value = << >>
           /\ m'.inputPane.descriptionInput.value = << >>
           /\ m'.mode = "Normal" ]_vars

\* C24 witness: the task created second, with identifier 2, is stored in the
\* third column and shown by the third view alone; the form is empty again
C24_Witness ==
    /\ m.mode = "Normal"
    /\ m.err = "nil"
    /\ m.focused = 2
    /\ Len(m.columns) = 3
    /\ db.seq = 2
    /\ Cardinality(db.tasks) = 2
    /\ \E t \in db.tasks :
          /\ t.Id = 2
          /\ t.StatusColumnId = DefaultColumns[3].Id
          /\ Shown(t) \in {Shown(x) : x \in Items(m.columns[3])}
          /\ \A i \in 1..2 : \A x \in Items(m.columns[i]) : x.Id # 2
    /\ m.inputPane.titleInput.value = << >>
    /\ m.inputPane.descriptionInput.value = << >>

\* C25 (as claimed): while the focused column is entering its filter text, no
\* step deletes or moves a task, enters Insert mode, changes the focused column
\* or quits: every key typed goes to the filter input.
C25_FilterTakesEveryKey ==
    [][ ( /\ m.mode = "Normal"
          /\ InRange(m)
          /\ SettingFilter(m.columns[m.focused + 1]) )
        => /\ db' = db
           /\ m'.mode = "Normal"
           /\ m'.focused = m.focused
           /\ proc' = proc ]_vars

\* C26: esc in Insert mode makes no persistence call and leaves the store, the
\* board, every column view and the focused column as they were; neither text
\* field keeps the input focus, the edit context is none and the mode Normal,
\* whether the form was creating or editing.
C26_CancelChangesNoTask ==
    [][ Cancel
        => /\ db' = db
           /\ m'.err = m.err
           /\ m'.board = m.board
           /\ m'.columns = m.columns
           /\ m'.focused = m.focused
           /\ ~m'.inputPane.titleInput.focus
           /\ ~m'.inputPane.descriptionInput.focus
           /\ EditContext(m') = "none"
           /\ m'.mode = "Normal"
           /\ proc' = proc ]_vars

\* C26 witness: an edit was cancelled: Normal mode, the form still naming the
\* task it was opened on and holding its text, no field focused, the task
\* stored and shown as before
C26_Witness ==
    /\ build = "patch"
    /\ m.mode = "Normal"
    /\ m.err = "nil"
    /\ m.inputPane.titleInput.value # << >>
    /\ ~m.inputPane.titleInput.focus
    /\ ~m.inputPane.descriptionInput.focus
    /\ \E t \in db.tasks :
          /\ t.Id = m.inputPane.taskId
          /\ InRange(m)
          /\ t \in Items(m.columns[m.focused + 1])

\* C27 (as claimed): whenever 'i' opens the form, the title and the description
\* fields are both empty, also after an edit cancelled with esc or a failed
\* submission cancelled with esc.
C27_CreateFormStartsEmpty ==
    [][ (BeginCreate /\ m'.mode = "Insert")
        => /\ m'.inputPane.titleInput.value = << >>
           /\ m'.inputPane.descriptionInput.value = << >> ]_vars

\* ------------------------------------------------------------ command keys in the form
\* the characters handleNormal takes as commands, typed while the form is open
CommandChars == {"d"}

\* the texts a field can hold when command characters are typed too
FormTexts == Texts \cup {<<c>> : c \in CommandChars}

\* handleInsert, any other key: the character of a Normal-mode command goes to
\* the field inputPane.focused names, as any character does
TypeCommandChar(c) ==
    /\ Running /\ m.mode = "Insert"
    /\ IF m.inputPane.focused = 0
         THEN /\ Append(m.inputPane.titleInput.value, c) \in FormTexts
              /\ m' = [m EXCEPT !.inputPane.titleInput = TypeInto(@, c)]
         ELSE /\ Append(m.inputPane.descriptionInput.value, c) \in FormTexts
              /\ m' = [m EXCEPT !.inputPane.descriptionInput = TypeInto(@, c)]
    /\ UNCHANGED <<build, proc, db, os, screen, pending>>

KeyCommandChar == \E c \in CommandChars : TypeCommandChar(c)

\* the keys of both modes, the command characters typed into the form, and quit
NextForm ==
    \/ WindowSize
    \/ KeyLeft
    \/ KeyRight
    \/ KeyDelete
    \/ BeginEdit
    \/ BeginCreate
    \/ KeyEnter
    \/ Cancel
    \/ SwitchField
    \/ KeyChar
    \/ KeyCommandChar
    \/ Backspace
    \/ KeyQuit

SpecForm == Init /\ [][NextForm]_vars

\* C28: in Insert mode no keystroke but enter makes a persistence call or
\* changes the store, the board, a column view or the focused column; the
\* characters of the Normal-mode commands are typed into the focused field,
\* and ctrl+c quits with the form's text saved nowhere.
C28_FormKeysTouchOnlyFields ==
    [][ (m.mode = "Insert" /\ ~KeyEnter /\ ~WindowSize)
        => /\ db' = db
           /\ m'.err = m.err
           /\ m'.board = m.board
           /\ m'.columns = m.columns
           /\ m'.focused = m.focused
           /\ \A c \in CommandChars : TypeCommandChar(c) =>
                 \/ m'.inputPane.titleInput.value
                       = Append(m.inputPane.titleInput.value, c)
                 \/ m'.inputPane.descriptionInput.value
                       = Append(m.inputPane.descriptionInput.value, c)
           /\ KeyQuit => proc' = "quit" /\ m' = m ]_vars

\* C28 witness: 'd' was typed into the title field of the open form while a
\* task is selected in the focused column: the task is still stored and shown
C28_Witness ==
    /\ proc = "running"
    /\ m.mode = "Insert"
    /\ m.inputPane.titleInput.value = <<"d">>
    /\ getSelectedTask(m) # << >>
    /\ getSelectedTask(m)[1].title = <<"a">>
    /\ \E r \in db.tasks : r.Id = getSelectedTask(m)[1].Id
    /\ m.err = "nil"

\* C28 witness, quit: ctrl+c was pressed with text in the form, and the store
\* holds no task
C28_QuitWitness ==
    /\ proc = "quit"
    /\ m.mode = "Insert"
    /\ m.inputPane.titleInput.value # << >>
    /\ db.tasks = {}

\* C29: 'i' in Normal mode while the focused column is entering its filter text
\* changes neither the mode nor the edit context nor the store, and the focused
\* list's filter input takes the key; 'i' otherwise switches to Insert with the
\* edit context creating and the field focus and the input focus on the title.
C29_CreateKeyRespectsFilter ==
    [][ (BeginCreate /\ proc' = "running")
        => IF SettingFilter(m.columns[m.focused + 1])
             THEN /\ m'.mode = "Normal"
                  /\ m'.inputPane = m.inputPane
                  /\ EditContext(m') = EditContext(m)
                  /\ db' = db
                  /\ m'.focused = m.focused
                  /\ m'.columns[m.focused + 1]
                        = FilterInput(m.columns[m.focused + 1], "i")
                  /\ \A i \in 1..Len(m.columns) :
                        i # m.focused + 1 => m'.columns[i] = m.columns[i]
             ELSE /\ m'.mode = "Insert"
                  /\ EditContext(m') = "creating"
                  /\ build = "patch" => m'.inputPane.taskId = -1
                  /\ m'.inputPane.focused = 0
                  /\ m'.inputPane.titleInput.focus
                  /\ m'.columns = m.columns
                  /\ db' = db ]_vars

\* C29 witness: 'i' was pressed while the focused list was entering its filter
\* text: the filter input holds it, the filter's result is on its way, and the
\* mode is Normal
C29_Witness ==
    /\ m.mode = "Normal"
    /\ InRange(m)
    /\ SettingFilter(m.columns[m.focused + 1])
    /\ m.columns[m.focused + 1].filterValue = <<"i">>
    /\ \E msg \in pending : msg.items = << >>
    /\ Cardinality(db.tasks) = 2

\* ------------------------------------------------------------ the edit form on two tasks
\* the revision with the edit key has just started on the two-task store
InitEdit ==
    /\ build = "patch"
    /\ InitFilter

\* the cursor and focus keys and the form
NextEdit ==
    \/ KeyLeft
    \/ KeyRight
    \/ KeyDown
    \/ KeyUp
    \/ BeginEdit
    \/ KeyEnter
    \/ Cancel
    \/ SwitchField
    \/ KeyChar
    \/ Backspace

SpecEdit == InitEdit /\ [][NextEdit]_vars

\* C30: 'e' with a task selected switches to Insert with the two fields holding
\* that task's title and description and the edit context editing that task:
\* its identifier, the focused column (unchanged) and the list's current
\* position, where an unfiltered list holds that task's item; with no task
\* selected it changes nothing.
C30_BeginEditLoadsTask ==
    [][ BeginEdit
        => LET sel == getSelectedTask(m) IN
           IF sel # << >>
             THEN /\ m'.mode = "Insert"
                  /\ m'.inputPane.titleInput.value = sel[1].title
                  /\ m'.inputPane.descriptionInput.value = sel[1].description
                  /\ EditContext(m') = "editing"
                  /\ m'.inputPane.taskId = sel[1].Id
                  /\ m'.inputPane.listIndex = Index(m.columns[m.focused + 1])
                  /\ m.columns[m.focused + 1].filterState = "Unfiltered"
                        => m.columns[m.focused + 1].items[m'.inputPane.listIndex + 1].Id
                              = sel[1].Id
                  /\ m'.inputPane.focused = 0
                  /\ m'.focused = m.focused
                  /\ m'.columns = m.columns
                  /\ m'.board = m.board
                  /\ db' = db
             ELSE m' = m /\ db' = db /\ proc' = proc ]_vars

\* C30 witness: 'e' was pressed on the second task of the first column: the
\* form holds its title and names it and its position
C30_Witness ==
    /\ m.mode = "Insert"
    /\ m.focused = 0
    /\ m.inputPane.taskId = 2
    /\ m.inputPane.listIndex = 1
    /\ m.inputPane.titleInput.value = <<"b">>
    /\ m.inputPane.titleInput.focus
    /\ getSelectedTask(m) # << >>
    /\ getSelectedTask(m)[1].Id = 2
    /\ getSelectedTask(m)[1].title = <<"b">>

\* ------------------------------------------------------------ the board keys alone
\* the focus, cursor, move and delete keys and the window-size message
NextMoves ==
    \/ WindowSize
    \/ KeyLeft
    \/ KeyRight
    \/ KeyDown
    \/ KeyUp
    \/ KeyMoveLeft
    \/ KeyMoveRight
    \/ KeyDelete

SpecMoves == Init /\ [][NextMoves]_vars

\* C31: '<' in the leftmost column, '>' in the rightmost column, and either key
\* when no task is selected in the focused column make no persistence call and
\* leave the store, the board, the views, the focused column and the error as
\* they were.
C31_EdgeMovesChangeNothing ==
    [][ ( /\ m.mode = "Normal"
          /\ \/ /\ m.focused = 0 \/ getSelectedTask(m) = << >>
                /\ KeyMoveLeft
             \/ /\ m.focused = Len(m.columns) - 1 \/ getSelectedTask(m) = << >>
                /\ KeyMoveRight )
        => /\ db' = db
           /\ m'.board = m.board
           /\ m'.columns = m.columns
           /\ m'.focused = m.focused
           /\ m'.err = m.err
           /\ proc' = proc ]_vars

\* C31 witness: a task is selected in the rightmost column, where '>' has
\* nothing to do, and the first column holds no task, so '<' has nothing to
\* move there
C31_Witness ==
    /\ proc = "running"
    /\ m.mode = "Normal"
    /\ Len(m.columns) = 3
    /\ m.focused = Len(m.columns) - 1
    /\ getSelectedTask(m) # << >>
    /\ m.columns[1].items = << >>
    /\ m.err = "nil"

\* ------------------------------------------------------------ sessions one after the other
\* the program is started again on the store file the ended process left: main
\* runs NewModel on it; failAt is the persistence call of NewModel that fails
\* (0: none)
Restart(failAt) ==
    /\ proc \in {"quit", "exited"}
    /\ proc' = "running"
    /\ m' = NewModel(build, db, failAt).m
    /\ db' = NewModel(build, db, failAt).db
    /\ os' = NoExit
    /\ screen' = NoScreen
    /\ pending' = {}
    /\ UNCHANGED build

\* a start in which no call fails
RestartClean == Restart(0)

\* the keys that create and move tasks, every persistence call succeeding
KeyEnterOk == ConfirmUpTo(MaxRows, TRUE)

KeyMoveLeftOk == MoveLeft(TRUE)

KeyMoveRightOk == MoveRight(TRUE)

\* sessions in which no call fails: the start, the keys that create and move
\* tasks, quit, and the next start
NextRestart ==
    \/ CleanStart
    \/ RestartClean
    \/ KeyQuit
    \/ WindowSize
    \/ KeyLeft
    \/ KeyRight
    \/ KeyMoveLeftOk
    \/ KeyMoveRightOk
    \/ BeginCreate
    \/ KeyEnterOk
    \/ Cancel
    \/ KeyChar

SpecRestart == InitBoot /\ [][NextRestart]_vars

\* the lists a session shows once they exist: those of NewModel, or, in the
\* revision that builds them on the first window-size message, those it builds
ShownAfterStart(mm) ==
    IF build = "sync" THEN rebuildColumns(mm).columns ELSE mm.columns

\* the identifiers a list shows, top to bottom
IdsOf(l) == [k \in 1..Len(l.items) |-> l.items[k].Id]

\* C32 (as claimed): after successful creates and moves, a quit and a restart,
\* every column's view lists the same tasks in the same order as it did just
\* before the quit.
C32_RestartShowsSameOrder ==
    [][ (RestartClean /\ proc = "quit" /\ Len(m.columns) > 0)
        => /\ Len(ShownAfterStart(m')) = Len(m.columns)
           /\ \A i \in 1..Len(m.columns) :
                 IdsOf(ShownAfterStart(m')[i]) = IdsOf(m.columns[i]) ]_vars

\* a start in which any call of NewModel may fail
RestartAny == \E failAt \in FailAt : Restart(failAt)

\* sessions one after the other, with failures: the start, the keys, quit, and
\* the next start
NextSessions ==
    \/ Start
    \/ RestartAny
    \/ KeyQuit
    \/ WindowSize
    \/ KeyLeft
    \/ KeyRight
    \/ BeginCreate
    \/ KeyEnter
    \/ Cancel
    \/ SwitchField
    \/ KeyChar
    \/ Backspace

SpecSessions == InitBoot /\ [][NextSessions]_vars

\* the store an interrupted first run left: the board row, and fewer than the
\* three default columns
PartlyBootstrapped(d) == d.boards # {} /\ Cardinality(d.status_columns) < 3

\* C33 (as claimed): a startup on a store whose first-run bootstrap stopped
\* after the board row and before the third column, and in which no call
\* fails, ends with an active board that has the three default columns.
C33_PartialBootstrapRepaired ==
    [][ (RestartAny /\ PartlyBootstrapped(db) /\ m'.err = "nil")
        => /\ Len(m'.board.Columns) = 3
           /\ \A i \in 1..3 : m'.board.Columns[i].Name = DefaultColumns[i].Name ]_vars

\* C34: when no call fails, after any number of startups the store holds
\* exactly one board and exactly three columns, all of that board, the active
\* board of the session is that board, and a restart makes the same board
\* active as the session before had.
C34_BootstrapOnce ==
    [][ /\ proc' \in {"running", "quit"}
            => /\ db'.boards = {m'.board.Id}
               /\ Cardinality(db'.status_columns) = 3
               /\ \A c \in db'.status_columns : c.BoardId = m'.board.Id
        /\ (RestartClean /\ proc = "quit")
            => /\ m'.board.Id = m.board.Id
               /\ db'.boards = db.boards
               /\ db'.status_columns = db.status_columns ]_vars

\* C34 witness: a session runs on the store of earlier sessions: one board,
\* its three columns, and two tasks of the first column listed oldest first,
\* as a startup lists them
C34_Witness ==
    /\ build = "patch"
    /\ proc = "running"
    /\ m.err = "nil"
    /\ m.board.Id = BoardId
    /\ db.boards = {BoardId}
    /\ Cardinality(db.status_columns) = 3
    /\ Len(m.columns) = 3
    /\ IdsOf(m.columns[1]) = <<1, 2>>
    /\ m.focused = 0
    /\ m.mode = "Normal"
====
